---- MODULE Spec2Model ----
(***************************************************************************)
(* Layer-oriented G-code post-processing scripts of mh-dm/slicer-scripts:  *)
(* BedCool.py, TempRamp.py, CoastRetract.py and TestingTower.py.           *)
(*                                                                         *)
(* Text.  A G-code line is a sequence of words; a word is a letter (or a   *)
(* piece of free text) with a decimal number written with d digits after   *)
(* the point: 'G1 E-2.50 F2400' is <<G 1, E -250/2, F 2400>>.  The empty   *)
(* line is <<>>.  A layer is the list layer.split('\n') of its lines, and  *)
(* '\n'.join(lines) is its inverse, so a layer string is kept as that list.*)
(* Python floats are modelled as exact decimals in thousandths.            *)
(***************************************************************************)
EXTENDS Integers, Sequences, FiniteSets, TLC

VARIABLES
    prog,              \* which script runs
    pc,                \* position of the run
    options,           \* the parsed settings (Script.getSettingValueByKey)
    data,              \* the list of layers handed to execute
    data0,             \* the list of layers as it was before execute
    layer_i,           \* index of the next layer of the for loop (0-based)
    current_bed_temp,  \* BedCool.execute
    current_temp,      \* TempRamp.execute
    target_temp,       \* TempRamp.execute
    current_value,     \* TestingTower.execute
    current_prime,     \* TestingTower.execute
    file,              \* the text read by the standalone script
    idx,               \* the segmenter's search position
    written,           \* what the standalone script wrote back, if anything
    pass               \* CoastRetract: number of completed execute calls

vars == <<prog, pc, options, data, data0, layer_i, current_bed_temp,
          current_temp, target_temp, current_value, current_prime,
          file, idx, written, pass>>

(***************************************************************************)
(* Bounds of the model.                                                    *)
(***************************************************************************)
MaxBedLayers == 9

MaxTempLayers == 24

MaxCoastLines == 4

MaxTowerLayers == 7

MaxPieces == 5

(***************************************************************************)
(* Numbers as Python writes and reads them.                                *)
(***************************************************************************)
Pow10(k) == IF k = 0 THEN 1 ELSE IF k = 1 THEN 10 ELSE IF k = 2 THEN 100 ELSE 1000

Word(c, n, d) == [c |-> c, n |-> n, d |-> d]

Cmd(c, n) == Word(c, n, 0)

Text(s) == Word(s, 0, 0)

\* float(text): the value of a written number, in thousandths
ParseFloat(w) == w.n * Pow10(3 - w.d)

\* a whole number as a float, in thousandths
Whole(n) == n * 1000

\* round(x): nearest integer, ties to the even one
Round(x) ==
    LET q == x \div 1000
        r == x % 1000
    IN  IF r < 500 THEN q
        ELSE IF r > 500 THEN q + 1
        ELSE IF q % 2 = 0 THEN q ELSE q + 1

\* '{}'.format(round(x))
FormatInt(c, x) == Word(c, Round(x), 0)

\* '{:.3f}'.format(x)
Format3(c, x) == Word(c, x, 3)

(***************************************************************************)
(* Python list slicing.                                                    *)
(***************************************************************************)
Max(a, b) == IF a > b THEN a ELSE b

Min(a, b) == IF a < b THEN a ELSE b

\* the position a slice bound i denotes in a list of length len
SliceIndex(len, i) == IF i < 0 THEN Max(len + i, 0) ELSE Min(i, len)

\* lines[0:0] = xs
InsertAtFront(lines, i, xs) == xs \o lines

\* lines[i:i] = xs
InsertAt(lines, i, xs) ==
    LET k == SliceIndex(Len(lines), i)
    IN  SubSeq(lines, 1, k) \o xs \o SubSeq(lines, k + 1, Len(lines))

\* seq[:-2]
DropLast2(seq) == SubSeq(seq, 1, Len(seq) - 2)

(***************************************************************************)
(* Lines.                                                                  *)
(***************************************************************************)
Blank == <<>>

LayerChange == <<Text(";LAYER_CHANGE")>>

Comment == <<Text("; comment")>>

StartGcode == <<Text("; custom gcode: start_gcode")>>

EndGcode == <<Text("; custom gcode: end_gcode")>>

Move == <<Cmd("G", 1), Cmd("X", 10), Cmd("Y", 10), Word("E", 5, 1)>>

\* 'M140 S<temp>'
BedTempLine(w) == <<Cmd("M", 140), w>>

\* line.startswith('M140 S')
StartsWithM140S(line) ==
    /\ Len(line) >= 2
    /\ line[1] = Cmd("M", 140)
    /\ line[2].c = "S"

(***************************************************************************)
(* BedCool.execute                                                         *)
(***************************************************************************)
\* for line in lines: if line.startswith('M140 S'): current_bed_temp = round(float(line[6:]))
RECURSIVE ScanBedTemp(_, _)
ScanBedTemp(lines, cur) ==
    IF lines = <<>> THEN cur
    ELSE ScanBedTemp(Tail(lines),
                     IF StartsWithM140S(Head(lines))
                     THEN Whole(Round(ParseFloat(Head(lines)[2])))
                     ELSE cur)

change_layer_start == (Len(data) - 2) - options.num_final_layers

\* the command written before the temperature is reduced
BedCoolGcodeBeforeReduce(temp) == BedTempLine(FormatInt("S", temp + options.reduce_by))

\* gcode = 'M140 S{}'.format(round(current_bed_temp))
BedCoolGcode(temp) == BedTempLine(FormatInt("S", temp))

BedCoolParseArgs ==
    /\ prog = "BedCool"
    /\ pc = "parse_args"
    /\ \E nfl \in {1, 2, 5}, rb \in {0, 500, 1000} :
          options' = [num_final_layers |-> nfl, reduce_by |-> rb]
    /\ pc' = "execute"
    /\ UNCHANGED <<prog, data, data0, layer_i, current_bed_temp, current_temp,
                   target_temp, current_value, current_prime, file, idx,
                   written, pass>>

\* one iteration of  for layer_i, layer in enumerate(data[:-2])
BedCoolLayer ==
    /\ prog = "BedCool"
    /\ pc = "execute"
    /\ layer_i < Len(DropLast2(data))
    /\ LET lines == data[layer_i + 1]
           seen  == ScanBedTemp(lines, current_bed_temp)
           cool  == layer_i >= change_layer_start /\ seen > 0
           temp  == IF cool THEN seen - options.reduce_by ELSE seen
           out   == IF cool THEN InsertAt(lines, 1, <<BedCoolGcode(temp)>>) ELSE lines
       IN  /\ current_bed_temp' = temp
           /\ data' = [data EXCEPT ![layer_i + 1] = out]
    /\ layer_i' = layer_i + 1
    /\ UNCHANGED <<prog, pc, options, data0, current_temp, target_temp,
                   current_value, current_prime, file, idx, written, pass>>

BedCoolReturn ==
    /\ prog = "BedCool"
    /\ pc = "execute"
    /\ layer_i >= Len(DropLast2(data))
    /\ pc' = "done"
    /\ UNCHANGED <<prog, options, data, data0, layer_i, current_bed_temp,
                   current_temp, target_temp, current_value, current_prime,
                   file, idx, written, pass>>

(***************************************************************************)
(* Layer streams handed to BedCool.execute: a prelude, the start G-code,   *)
(* print layers, the end G-code and the empty last entry, with bed         *)
(* temperature commands in up to two layers.                               *)
(***************************************************************************)
PrintLayers == {<<LayerChange, Move, Blank>>, <<LayerChange, Blank>>}

BaseStream(n, print) ==
    [i \in 1..n |->
        IF i = 1 THEN <<Comment, Blank>>
        ELSE IF i = 2 THEN <<StartGcode, Comment, Blank>>
        ELSE IF i = n - 1 THEN <<EndGcode, Comment>>
        ELSE IF i = n THEN <<Blank>>
        ELSE print]

\* the stream with line added as second line of layer p (p = 0: nowhere)
WithLine(stream, p, line) ==
    IF p = 0 THEN stream
    ELSE [stream EXCEPT ![p] = InsertAt(stream[p], 1, <<line>>)]

\* the stream with line added as last line of layer p (p = 0: nowhere)
WithLastLine(stream, p, line) ==
    IF p = 0 THEN stream
    ELSE [stream EXCEPT ![p] = Append(stream[p], line)]

BedTemps == {Word("S", 60, 0), Word("S", 605, 1), Word("S", 0, 0)}

InitBed ==
    /\ prog = "BedCool"
    /\ pc = "parse_args"
    /\ options = [num_final_layers |-> 5, reduce_by |-> 1000]
    /\ \E n \in 4..MaxBedLayers, print \in PrintLayers :
       \E p1 \in 0..2, p2 \in {0} \cup ((n - 3)..(n - 1)), t1 \in BedTemps :
          data = WithLine(WithLine(BaseStream(n, print), p1, BedTempLine(t1)),
                          p2, BedTempLine(Word("S", 50, 0)))
    /\ data0 = data
    /\ layer_i = 0
    /\ current_bed_temp = 0
    /\ current_temp = 0
    /\ target_temp = 0
    /\ current_value = 0
    /\ current_prime = 0
    /\ file = <<>>
    /\ idx = 0
    /\ written = <<>>
    /\ pass = 0

NextBed == BedCoolParseArgs \/ BedCoolLayer \/ BedCoolReturn

SpecBed == InitBed /\ [][NextBed]_vars

(***************************************************************************)
(* TempRamp.execute                                                        *)
(***************************************************************************)
\* 'M104 S<temp>'
NozzleTempLine(w) == <<Cmd("M", 104), w>>

\* line.startswith('M104 S')
StartsWithM104S(line) ==
    /\ Len(line) >= 2
    /\ line[1] = Cmd("M", 104)
    /\ line[2].c = "S"

\* the scan rewriting a far target's line without taking a step
RECURSIVE TempRampScanNoStep(_, _, _, _)
TempRampScanNoStep(lines, line_i, cur, tgt) ==
    IF line_i > Len(lines)
    THEN [lines |-> lines, current_temp |-> cur, target_temp |-> tgt]
    ELSE IF ~StartsWithM104S(lines[line_i])
    THEN TempRampScanNoStep(lines, line_i + 1, cur, tgt)
    ELSE LET t == ParseFloat(lines[line_i][2])
         IN  IF cur = 0 \/ t <= cur + options.increase_by
             THEN TempRampScanNoStep(lines, line_i + 1, t, t)
             ELSE TempRampScanNoStep(
                     [lines EXCEPT ![line_i] = NozzleTempLine(FormatInt("S", cur))],
                     line_i + 1, cur, t)

\* for line_i, line in enumerate(lines): ... ; yields the lines and both temperatures
RECURSIVE TempRampScan(_, _, _, _)
TempRampScan(lines, line_i, cur, tgt) ==
    IF line_i > Len(lines)
    THEN [lines |-> lines, current_temp |-> cur, target_temp |-> tgt]
    ELSE IF ~StartsWithM104S(lines[line_i])
    THEN TempRampScan(lines, line_i + 1, cur, tgt)
    ELSE LET t == ParseFloat(lines[line_i][2])
         IN  IF cur = 0
             THEN TempRampScan(lines, line_i + 1, t, t)
             ELSE IF t <= cur + options.increase_by
             THEN TempRampScan(lines, line_i + 1, t, t)
             ELSE TempRampScan(
                     [lines EXCEPT ![line_i] =
                         NozzleTempLine(FormatInt("S", cur + options.increase_by))],
                     line_i + 1, cur + options.increase_by, t)

\* the step at the end of a layer taken without the limit of the target
TempRampLayerEndNoClamp(s) ==
    IF s.current_temp < s.target_temp
    THEN LET cur == s.current_temp + options.increase_by
         IN  [lines |-> InsertAt(s.lines, -1, <<NozzleTempLine(FormatInt("S", cur))>>),
              current_temp |-> cur, target_temp |-> s.target_temp]
    ELSE s

\* if current_temp < target_temp: one more step, written before the last line
TempRampLayerEnd(s) ==
    IF s.current_temp < s.target_temp
    THEN LET cur == Min(s.current_temp + options.increase_by, s.target_temp)
         IN  [lines |-> InsertAt(s.lines, -1, <<NozzleTempLine(FormatInt("S", cur))>>),
              current_temp |-> cur, target_temp |-> s.target_temp]
    ELSE s

TempRampParseArgs ==
    /\ prog = "TempRamp"
    /\ pc = "parse_args"
    /\ \E inc \in {0, 200, 1000, 2500} : options' = [increase_by |-> inc]
    /\ pc' = "execute"
    /\ UNCHANGED <<prog, data, data0, layer_i, current_bed_temp, current_temp,
                   target_temp, current_value, current_prime, file, idx,
                   written, pass>>

\* one iteration of  for layer_i, layer in enumerate(data[:-2])
TempRampLayer ==
    /\ prog = "TempRamp"
    /\ pc = "execute"
    /\ layer_i < Len(DropLast2(data))
    /\ LET s == TempRampLayerEnd(
                   TempRampScan(data[layer_i + 1], 1, current_temp, target_temp))
       IN  /\ current_temp' = s.current_temp
           /\ target_temp' = s.target_temp
           /\ data' = [data EXCEPT ![layer_i + 1] = s.lines]
    /\ layer_i' = layer_i + 1
    /\ UNCHANGED <<prog, pc, options, data0, current_bed_temp, current_value,
                   current_prime, file, idx, written, pass>>

TempRampReturn ==
    /\ prog = "TempRamp"
    /\ pc = "execute"
    /\ layer_i >= Len(DropLast2(data))
    /\ pc' = "done"
    /\ UNCHANGED <<prog, options, data, data0, layer_i, current_bed_temp,
                   current_temp, target_temp, current_value, current_prime,
                   file, idx, written, pass>>

(***************************************************************************)
(* Layer streams handed to TempRamp.execute: nozzle temperature commands   *)
(* in up to three layers, the second one either the second or the last     *)
(* line of its layer (a layer that does not end with a newline).           *)
(***************************************************************************)
FirstTemps == {Word("S", 190, 0), Word("S", 0, 0)}

LaterTemps == {Word("S", 210, 0), Word("S", 191, 0), Word("S", 180, 0), Word("S", 1955, 1)}

InitTemp ==
    /\ prog = "TempRamp"
    /\ pc = "parse_args"
    /\ options = [increase_by |-> 1000]
    /\ \E n \in (4..6) \cup {MaxTempLayers}, p1 \in 1..3, t1 \in FirstTemps :
       \E p2 \in {0, p1, p1 + 1}, t2 \in LaterTemps, p3 \in {0, p1 + 3},
          print \in PrintLayers, last \in BOOLEAN :
          /\ p2 <= n
          /\ p3 <= n
          /\ p3 # 0 => p2 # 0
          /\ LET later == WithLine(BaseStream(n, print),
                                  p3, NozzleTempLine(Word("S", 200, 0)))
                 first == WithLine(IF last THEN later
                                   ELSE WithLine(later, p2, NozzleTempLine(t2)),
                                   p1, NozzleTempLine(t1))
             IN  data = IF last THEN WithLastLine(first, p2, NozzleTempLine(t2))
                        ELSE first
    /\ data0 = data
    /\ layer_i = 0
    /\ current_bed_temp = 0
    /\ current_temp = 0
    /\ target_temp = 0
    /\ current_value = 0
    /\ current_prime = 0
    /\ file = <<>>
    /\ idx = 0
    /\ written = <<>>
    /\ pass = 0

NextTemp == TempRampParseArgs \/ TempRampLayer \/ TempRampReturn

SpecTemp == InitTemp /\ [][NextTemp]_vars

(***************************************************************************)
(* CoastRetract: the two dialects of the line patterns.  options.dialect   *)
(* is "standalone" when the script runs as __main__ (extrusion before feed *)
(* rate) and "cura" when Cura imports it (feed rate before extrusion).     *)
(***************************************************************************)
\* the value None, stored in place of a deleted line
NoneLine == <<Text("None")>>

\* line.startswith('G')
StartsWithG(line) == Len(line) >= 1 /\ line[1].c = "G"

\* line.find(" E") != -1
HasSpaceE(line) == \E k \in 2..Len(line) : line[k].c = "E"

\* the digits [0-9]+ matched at the start of a written number
Digits(w) == w.n \div Pow10(w.d)

\* retract_re.match(line)
RetractMatch(line) ==
    /\ Len(line) >= 3
    /\ line[1] = Cmd("G", 1)
    /\ IF options.dialect = "standalone"
       THEN line[2].c = "E" /\ line[2].n < 0 /\ line[3].c = "F" /\ line[3].n >= 0
       ELSE line[2].c = "F" /\ line[2].n >= 0 /\ line[2].d = 0
            /\ line[3].c = "E" /\ line[3].n < 0

\* match.groups()[retract_amount_i]
RetractAmount(line) == IF options.dialect = "standalone" THEN line[2] ELSE line[3]

\* match.groups()[retract_speed_i]
RetractSpeed(line) ==
    IF options.dialect = "standalone" THEN Cmd("F", Digits(line[3])) ELSE line[2]

\* travel_re.match(line)
TravelMatch(line) ==
    /\ Len(line) >= 2
    /\ IF options.dialect = "standalone"
       THEN line[1] = Cmd("G", 1)
       ELSE line[1] \in {Cmd("G", 0), Cmd("G", 1)}

\* travel_match.groups()[0]
TravelGroup(line) ==
    IF /\ options.dialect = "cura"
       /\ Len(line) >= 3
       /\ line[2].c = "F"
       /\ line[2].d = 0
    THEN SubSeq(line, 3, Len(line))
    ELSE Tail(line)

\* text.rstrip('0').rstrip('.') of a number written with a decimal point
RECURSIVE RStripZeros(_)
RStripZeros(w) ==
    IF w.d > 0 /\ w.n % 10 = 0
    THEN RStripZeros([w EXCEPT !.n = w.n \div 10, !.d = w.d - 1])
    ELSE w

\* the combined move written with the extrusion before the travel operands
CombinedMoveExtrusionFirst(travel, retract) ==
    <<Cmd("G", 1), FormatInt("F", ParseFloat(RetractSpeed(retract))),
      RStripZeros(Format3("E", ParseFloat(RetractAmount(retract))))>>
        \o TravelGroup(travel)

\* "G1 F{} {} E{:.3f}".format(speed, group, amount).rstrip('0').rstrip('.')
CombinedMove(travel, retract) ==
    <<Cmd("G", 1), FormatInt("F", ParseFloat(RetractSpeed(retract)))>>
        \o TravelGroup(travel)
        \o <<RStripZeros(Format3("E", ParseFloat(RetractAmount(retract))))>>

(***************************************************************************)
(* CoastRetract.execute                                                    *)
(***************************************************************************)
\* the backward scan going on past the moves that carry an extrusion
RECURSIVE ScanBackPastExtrusion(_, _)
ScanBackPastExtrusion(lines, i) ==
    IF i < 1 THEN 0
    ELSE IF lines[i] = NoneLine THEN -1
    ELSE IF ~StartsWithG(lines[i]) \/ HasSpaceE(lines[i])
    THEN ScanBackPastExtrusion(lines, i - 1)
    ELSE i

\* for i in range(idx - 1, -1, -1): the nearest line at or before i that
\* starts with 'G' (0: the loop ends without one; -1: lines[i] is None and
\* lines[i].startswith raises AttributeError)
RECURSIVE ScanBack(_, _)
ScanBack(lines, i) ==
    IF i < 1 THEN 0
    ELSE IF lines[i] = NoneLine THEN -1
    ELSE IF ~StartsWithG(lines[i]) THEN ScanBack(lines, i - 1)
    ELSE i

\* for idx, line in enumerate(lines): ... ; yields the lines and whether it raised
RECURSIVE CoastRetractScan(_, _)
CoastRetractScan(lines, line_idx) ==
    IF line_idx > Len(lines) THEN [lines |-> lines, raised |-> FALSE]
    ELSE IF ~RetractMatch(lines[line_idx]) THEN CoastRetractScan(lines, line_idx + 1)
    ELSE LET i == ScanBack(lines, line_idx - 1)
         IN  IF i = -1 THEN [lines |-> lines, raised |-> TRUE]
             ELSE IF i = 0 THEN CoastRetractScan(lines, line_idx + 1)
             ELSE IF ~TravelMatch(lines[i]) \/ HasSpaceE(lines[i])
             THEN CoastRetractScan(lines, line_idx + 1)
             ELSE CoastRetractScan(
                     [lines EXCEPT ![i] = CombinedMove(lines[i], lines[line_idx]),
                                   ![line_idx] = NoneLine],
                     line_idx + 1)

NotNone(line) == line # NoneLine

\* one iteration of  for layer_i, layer in enumerate(data)
CoastRetractLayer ==
    /\ prog = "CoastRetract"
    /\ pc = "execute"
    /\ layer_i < Len(data)
    /\ LET s == CoastRetractScan(data[layer_i + 1], 1)
       IN  IF s.raised
           THEN /\ pc' = "raised"
                /\ UNCHANGED <<data, layer_i>>
           ELSE /\ data' = [data EXCEPT ![layer_i + 1] = SelectSeq(s.lines, NotNone)]
                /\ layer_i' = layer_i + 1
                /\ pc' = pc
    /\ UNCHANGED <<prog, options, data0, current_bed_temp, current_temp,
                   target_temp, current_value, current_prime, file, idx,
                   written, pass>>

CoastRetractReturn ==
    /\ prog = "CoastRetract"
    /\ pc = "execute"
    /\ layer_i >= Len(data)
    /\ pc' = "done"
    /\ pass' = pass + 1
    /\ UNCHANGED <<prog, options, data, data0, layer_i, current_bed_temp,
                   current_temp, target_temp, current_value, current_prime,
                   file, idx, written>>

\* execute called again on the list the first call returned
CoastRetractAgain ==
    /\ prog = "CoastRetract"
    /\ pc = "done"
    /\ pass = 1
    /\ pc' = "execute"
    /\ data0' = data
    /\ layer_i' = 0
    /\ UNCHANGED <<prog, options, data, current_bed_temp, current_temp,
                   target_temp, current_value, current_prime, file, idx,
                   written, pass>>

(***************************************************************************)
(* Layers handed to CoastRetract.execute: every list of up to              *)
(* MaxCoastLines lines of these kinds; the standalone script hands over    *)
(* the whole file as one layer, Cura a list of layers.                     *)
(***************************************************************************)
Travel == <<Cmd("G", 1), Cmd("X", 10), Cmd("Y", 10)>>

TravelFeed == <<Cmd("G", 0), Cmd("F", 3000), Cmd("X", 10), Cmd("Y", 10)>>

\* 'G1 E-2 F2400' or 'G1 F2400 E-2'
Retract(dialect, amount, speed) ==
    IF dialect = "standalone"
    THEN <<Cmd("G", 1), amount, Cmd("F", speed)>>
    ELSE <<Cmd("G", 1), Cmd("F", speed), amount>>

CoastLines(dialect) ==
    {Travel, TravelFeed, Move, LayerChange,
     Retract(dialect, Word("E", -2, 0), 2400),
     Retract(dialect, Word("E", -80, 2), 1800)}

SeqsUpTo(S, n) == UNION {[1..k -> S] : k \in 0..n}

InitCoast ==
    /\ prog = "CoastRetract"
    /\ pc = "execute"
    /\ \E dialect \in {"standalone", "cura"} :
          /\ options = [dialect |-> dialect]
          /\ \E lines \in SeqsUpTo(CoastLines(dialect), MaxCoastLines) :
                data = IF dialect = "standalone"
                       THEN <<lines \o <<Blank>> >>
                       ELSE <<lines \o <<Blank>>,
                              <<LayerChange, Travel, Comment,
                                Retract(dialect, Word("E", -2, 0), 2400), Blank>> >>
    /\ data0 = data
    /\ layer_i = 0
    /\ current_bed_temp = 0
    /\ current_temp = 0
    /\ target_temp = 0
    /\ current_value = 0
    /\ current_prime = 0
    /\ file = <<>>
    /\ idx = 0
    /\ written = <<>>
    /\ pass = 0

NextCoast == CoastRetractLayer \/ CoastRetractReturn \/ CoastRetractAgain

SpecCoast == InitCoast /\ [][NextCoast]_vars

(***************************************************************************)
(* TestingTower: line patterns (the same two dialects) and the commands.   *)
(***************************************************************************)
\* prime_re.match(line)
PrimeMatch(line) ==
    /\ Len(line) >= 3
    /\ line[1] = Cmd("G", 1)
    /\ IF options.dialect = "standalone"
       THEN line[2].c = "E" /\ line[2].n >= 0 /\ line[3].c = "F" /\ line[3].n >= 0
       ELSE line[2].c = "F" /\ line[2].n >= 0 /\ line[2].d = 0
            /\ line[3].c = "E" /\ line[3].n >= 0

\* the keys of settings['command']['options']
Commands ==
    {"speed", "acceleration", "tacceleration", "pacceleration", "racceleration",
     "eacceleration", "jerk", "zjerk", "ejerk", "junction", "lin-advance",
     "nozzle-temp", "bed-temp", "retract-speed", "retract-distance",
     "prime-speed", "extra-prime"}

\* x / 10 rounded to the nearest integer, ties to the even one
RoundTenth(x) ==
    LET q == x \div 10
        r == x % 10
    IN  IF r < 5 THEN q
        ELSE IF r > 5 THEN q + 1
        ELSE IF q % 2 = 0 THEN q ELSE q + 1

\* '{:.2f}'.format(x)
Format2(c, x) == Word(c, RoundTenth(x), 2)

\* gcode, the setter line of a command for a value (<<>> is None)
SetterGcode(command, value) ==
    CASE command = "speed"         -> <<Cmd("M", 220), FormatInt("S", value)>>
      [] command = "acceleration"  -> <<Cmd("M", 204), FormatInt("S", value)>>
      [] command = "tacceleration" -> <<Cmd("M", 204), FormatInt("T", value)>>
      [] command = "pacceleration" -> <<Cmd("M", 204), FormatInt("P", value)>>
      [] command = "racceleration" -> <<Cmd("M", 204), FormatInt("R", value)>>
      [] command = "eacceleration" -> <<Cmd("M", 201), FormatInt("E", value)>>
      [] command = "jerk"          -> <<Cmd("M", 205), Format2("X", value), Format2("Y", value)>>
      [] command = "zjerk"         -> <<Cmd("M", 205), Format2("Z", value)>>
      [] command = "ejerk"         -> <<Cmd("M", 205), Format2("E", value)>>
      [] command = "junction"      -> <<Cmd("M", 205), Format3("J", value)>>
      [] command = "lin-advance"   -> <<Cmd("M", 900), Format3("K", value)>>
      [] command = "nozzle-temp"   -> <<Cmd("M", 104), FormatInt("S", value)>>
      [] command = "bed-temp"      -> <<Cmd("M", 104), FormatInt("S", value)>>
      [] OTHER                     -> <<>>

\* lcd_gcode, the status line
LcdGcode(command, value) ==
    <<Cmd("M", 117)>> \o
    CASE command = "speed"         -> <<Text("Speed")>> \o SetterGcode(command, value)
      [] command = "acceleration"  -> <<Text("Accel")>> \o SetterGcode(command, value)
      [] command = "tacceleration" -> <<Text("TAccel")>> \o SetterGcode(command, value)
      [] command = "pacceleration" -> <<Text("PAccel")>> \o SetterGcode(command, value)
      [] command = "racceleration" -> <<Text("RAccel")>> \o SetterGcode(command, value)
      [] command = "eacceleration" -> <<Text("EAccel")>> \o SetterGcode(command, value)
      [] command = "jerk"          -> <<Text("XYJerk")>> \o SetterGcode(command, value)
      [] command = "zjerk"         -> <<Text("ZJerk")>> \o SetterGcode(command, value)
      [] command = "ejerk"         -> <<Text("EJerk")>> \o SetterGcode(command, value)
      [] command = "junction"      -> <<Text("Junction")>> \o SetterGcode(command, value)
      [] command = "lin-advance"   -> <<Text("Lin Adv")>> \o SetterGcode(command, value)
      [] command = "nozzle-temp"   -> <<Text("Nozzle Temp")>> \o SetterGcode(command, value)
      [] command = "bed-temp"      -> <<Text("Bed Temp")>> \o SetterGcode(command, value)
      [] command = "retract-speed" -> <<Text("Retract Speed"), FormatInt("", value)>>
      [] command = "retract-distance" -> <<Text("Retract Dist"), Format3("", value)>>
      [] command = "prime-speed"   -> <<Text("Prime Speed"), FormatInt("", value)>>
      [] command = "extra-prime"   -> <<Text("Extra Prime"), Format3("", value)>>

SpeedRemember == <<Cmd("M", 220), Text("B")>>

SpeedRestore == <<Cmd("M", 220), Text("R")>>

\* the lines of  lines[1:1] = [gcode, lcd_gcode] if gcode else [lcd_gcode];
\* 'M220 B\n' + gcode is one list entry that is two lines of the joined layer
TowerInserted(command, value, first) ==
    (IF command = "speed" /\ first THEN <<SpeedRemember>> ELSE <<>>)
    \o (IF SetterGcode(command, value) # <<>>
        THEN <<SetterGcode(command, value)>> ELSE <<>>)
    \o <<LcdGcode(command, value)>>

\* current_prime = -1
NoPrime == Whole(-1)

(***************************************************************************)
(* TestingTower.execute                                                    *)
(***************************************************************************)
\* 'G1 F{} E{:.3f}'.format(match.groups()[re_speed_i], current_prime)
PrimeRewritten(line, prime) == <<Cmd("G", 1), RetractSpeed(line), Format3("E", prime)>>

\* for line_i, line in enumerate(lines): ... ; yields the lines and current_prime
RECURSIVE TowerRewrite(_, _, _, _)
TowerRewrite(lines, line_i, prime, value) ==
    IF line_i > Len(lines) THEN [lines |-> lines, current_prime |-> prime]
    ELSE LET line    == lines[line_i]
             command == options.command
         IN  IF command = "retract-speed" /\ RetractMatch(line)
             THEN TowerRewrite(
                     [lines EXCEPT ![line_i] =
                         <<Cmd("G", 1), FormatInt("F", value * 60), RetractAmount(line)>>],
                     line_i + 1, prime, value)
             ELSE IF command = "retract-distance" /\ RetractMatch(line)
             THEN TowerRewrite(
                     [lines EXCEPT ![line_i] =
                         <<Cmd("G", 1), RetractSpeed(line), Format3("E", 0 - value)>>],
                     line_i + 1, value, value)
             ELSE IF command = "retract-distance" /\ PrimeMatch(line) /\ prime # NoPrime
             THEN TowerRewrite(
                     [lines EXCEPT ![line_i] = PrimeRewritten(line, prime)],
                     line_i + 1, prime, value)
             ELSE IF command = "prime-speed" /\ PrimeMatch(line)
             THEN TowerRewrite(
                     [lines EXCEPT ![line_i] =
                         <<Cmd("G", 1), FormatInt("F", value * 60), RetractAmount(line)>>],
                     line_i + 1, prime, value)
             ELSE IF command = "extra-prime" /\ PrimeMatch(line)
             THEN TowerRewrite(
                     [lines EXCEPT ![line_i] =
                         <<Cmd("G", 1), RetractSpeed(line),
                           Format3("E", ParseFloat(RetractAmount(line)) + value)>>],
                     line_i + 1, prime, value)
             ELSE TowerRewrite(lines, line_i + 1, prime, value)

\* start_layer += 2
start_layer == options.start_layer + 2

\* (layer_i - start_layer) % change_value_every == 0
Qualifying(i) == (i - start_layer) % options.change_value_every = 0

TestingTowerParseArgs ==
    /\ prog = "TestingTower"
    /\ pc = "parse_args"
    /\ \E command \in Commands, sv \in {100000, 100500, 1000, -1000},
          vc \in {1000, 500, -1000}, cve \in {1, 2}, sl \in {0, 1} :
          options' = [dialect |-> options.dialect, command |-> command,
                      start_value |-> sv, value_change |-> vc,
                      change_value_every |-> cve, start_layer |-> sl]
    /\ pc' = "execute"
    /\ UNCHANGED <<prog, data, data0, layer_i, current_bed_temp, current_temp,
                   target_temp, current_value, current_prime, file, idx,
                   written, pass>>

\* the value before the first step, taken as start_value itself
InitialValueNoOffset == options.start_value

\* current_value = start_value - value_change
InitialValue == options.start_value - options.value_change

\* the prologue of execute, up to  current_prime = -1
TestingTowerBegin ==
    /\ prog = "TestingTower"
    /\ pc = "execute"
    /\ current_value' = InitialValue
    /\ current_prime' = NoPrime
    /\ pc' = "loop"
    /\ UNCHANGED <<prog, options, data, data0, layer_i, current_bed_temp,
                   current_temp, target_temp, file, idx, written, pass>>

\* one iteration of  for layer_i, layer in enumerate(data[:-2])
TestingTowerLayer ==
    /\ prog = "TestingTower"
    /\ pc = "loop"
    /\ layer_i < Len(DropLast2(data))
    /\ IF layer_i < start_layer
       THEN UNCHANGED <<data, current_value, current_prime>>
       ELSE /\ current_value' = IF Qualifying(layer_i)
                                THEN current_value + options.value_change
                                ELSE current_value
            /\ LET lines == IF Qualifying(layer_i)
                            THEN InsertAt(data[layer_i + 1], 1,
                                    TowerInserted(options.command, current_value',
                                                  layer_i = start_layer))
                            ELSE data[layer_i + 1]
                   s     == TowerRewrite(lines, 1, current_prime, current_value')
                   out   == IF layer_i = Len(data) - 3 /\ options.command = "speed"
                            THEN InsertAt(s.lines, -1, <<SpeedRestore>>)
                            ELSE s.lines
               IN  /\ current_prime' = s.current_prime
                   /\ data' = [data EXCEPT ![layer_i + 1] = out]
    /\ layer_i' = layer_i + 1
    /\ UNCHANGED <<prog, pc, options, data0, current_bed_temp, current_temp,
                   target_temp, file, idx, written, pass>>

TestingTowerReturn ==
    /\ prog = "TestingTower"
    /\ pc = "loop"
    /\ layer_i >= Len(DropLast2(data))
    /\ pc' = "done"
    /\ UNCHANGED <<prog, options, data, data0, layer_i, current_bed_temp,
                   current_temp, target_temp, current_value, current_prime,
                   file, idx, written, pass>>

(***************************************************************************)
(* Layer streams handed to TestingTower.execute.                           *)
(***************************************************************************)
\* 'G1 E2 F2400' or 'G1 F2400 E2'
Prime(dialect) == Retract(dialect, Word("E", 2, 0), 2400)

TowerPrintLayers(dialect) ==
    {<<LayerChange, Retract(dialect, Word("E", -2, 0), 2400), Travel, Prime(dialect), Move, Blank>>,
     <<LayerChange, Prime(dialect), Move, Retract(dialect, Word("E", -80, 2), 1800), Blank>>,
     <<LayerChange, Move, Blank>>}

InitTower ==
    /\ prog = "TestingTower"
    /\ pc = "parse_args"
    /\ \E dialect \in {"standalone", "cura"} :
          /\ options = [dialect |-> dialect, command |-> "speed",
                        start_value |-> 100000, value_change |-> 1000,
                        change_value_every |-> 1, start_layer |-> 1]
          /\ \E n \in 4..MaxTowerLayers, print \in TowerPrintLayers(dialect) :
                data = BaseStream(n, print)
    /\ data0 = data
    /\ layer_i = 0
    /\ current_bed_temp = 0
    /\ current_temp = 0
    /\ target_temp = 0
    /\ current_value = 0
    /\ current_prime = 0
    /\ file = <<>>
    /\ idx = 0
    /\ written = <<>>
    /\ pass = 0

NextTower ==
    TestingTowerParseArgs \/ TestingTowerBegin \/ TestingTowerLayer \/ TestingTowerReturn

SpecTower == InitTower /\ [][NextTower]_vars

(***************************************************************************)
(* The standalone scripts' segmenter (BedCool.py 79-93, TempRamp.py        *)
(* 95-109, TestingTower.py 247-260).  Here the text is a sequence of       *)
(* characters and a layer a piece of it.  Each marker is shortened to its  *)
(* first character and one letter standing for the rest of it.             *)
(***************************************************************************)
\* '; custom gcode: start_gcode'
StartMarker == <<";", "S">>

\* ';LAYER_CHANGE\n'
LayerMarker == <<";", "L", "\n">>

\* '; custom gcode: end_gcode'
EndMarker == <<";", "E">>

\* text[a:b]
Slice(text, a, b) ==
    SubSeq(text, SliceIndex(Len(text), a) + 1, SliceIndex(Len(text), b))

\* text[a:]
SliceFrom(text, a) == SubSeq(text, SliceIndex(Len(text), a) + 1, Len(text))

\* sub occurs in text at index k (0-based)
OccursAt(text, sub, k) ==
    /\ k >= 0
    /\ k + Len(sub) <= Len(text)
    /\ SubSeq(text, k + 1, k + Len(sub)) = sub

Occurrences(text, sub) == {k \in 0..Len(text) : OccursAt(text, sub, k)}

\* text.find(sub, start)
Find(text, sub, start) ==
    LET ks == {k \in Occurrences(text, sub) : k >= start}
    IN  IF ks = {} THEN -1 ELSE CHOOSE k \in ks : \A m \in ks : k <= m

\* text.rfind(sub)
RFind(text, sub) ==
    LET ks == Occurrences(text, sub)
    IN  IF ks = {} THEN -1 ELSE CHOOSE k \in ks : \A m \in ks : k >= m

\* idx = file.find('; custom gcode: start_gcode'); data = [file[0:idx]]
SegFindStart ==
    /\ pc = "find_start"
    /\ idx' = Find(file, StartMarker, 0)
    /\ data' = <<Slice(file, 0, idx')>>
    /\ pc' = "find_layers"
    /\ UNCHANGED <<prog, options, data0, layer_i, current_bed_temp, current_temp,
                   target_temp, current_value, current_prime, file, written, pass>>

\* one iteration of  while idx != -1
SegNextLayer ==
    /\ pc = "find_layers"
    /\ idx # -1
    /\ LET nidx == Find(file, LayerMarker, idx + 1)
       IN  /\ data' = Append(data, Slice(file, idx, nidx))
           /\ idx' = nidx
    /\ UNCHANGED <<prog, pc, options, data0, layer_i, current_bed_temp,
                   current_temp, target_temp, current_value, current_prime,
                   file, written, pass>>

\* idx = data[-1].rfind('; custom gcode: end_gcode')
\* data[-1:] = [data[-1][0:idx], data[-1][idx:], '']
SegSplitEnd ==
    /\ pc = "find_layers"
    /\ idx = -1
    /\ LET last == data[Len(data)]
       IN  /\ idx' = RFind(last, EndMarker)
           /\ data' = SubSeq(data, 1, Len(data) - 1)
                        \o <<Slice(last, 0, idx'), SliceFrom(last, idx'), <<>> >>
    /\ pc' = "call_execute"
    /\ UNCHANGED <<prog, options, data0, layer_i, current_bed_temp, current_temp,
                   target_temp, current_value, current_prime, file, written, pass>>

\* BedCool().execute(data) / TempRamp().execute(data): a text of these
\* characters holds no 'M140 S' and no 'M104 S' line, so current_bed_temp and
\* current_temp stay 0, nothing is inserted, and every layer is joined back
\* from its own lines
SegExecute ==
    /\ pc = "call_execute"
    /\ prog \in {"BedCool", "TempRamp"}
    /\ data' = data
    /\ pc' = "write"
    /\ UNCHANGED <<prog, options, data0, layer_i, current_bed_temp, current_temp,
                   target_temp, current_value, current_prime, file, idx,
                   written, pass>>

RECURSIVE Concat(_)
Concat(chunks) ==
    IF chunks = <<>> THEN <<>> ELSE Head(chunks) \o Concat(Tail(chunks))

\* with open(args[0], 'w') as f: f.writelines(data)
SegWrite ==
    /\ pc = "write"
    /\ written' = Concat(data)
    /\ pc' = "written"
    /\ UNCHANGED <<prog, options, data, data0, layer_i, current_bed_temp,
                   current_temp, target_temp, current_value, current_prime,
                   file, idx, pass>>

(***************************************************************************)
(* The texts read: up to MaxPieces pieces, each a marker or a character.   *)
(***************************************************************************)
Pieces == {StartMarker, LayerMarker, EndMarker, <<"g">>, <<"\n">>}

InitSeg ==
    /\ prog \in {"BedCool", "TempRamp"}
    /\ pc = "find_start"
    /\ options = IF prog = "BedCool"
                 THEN [num_final_layers |-> 5, reduce_by |-> 1000]
                 ELSE [increase_by |-> 1000]
    /\ \E pieces \in SeqsUpTo(Pieces, MaxPieces) : file = Concat(pieces)
    /\ data = <<>>
    /\ data0 = <<>>
    /\ layer_i = 0
    /\ current_bed_temp = 0
    /\ current_temp = 0
    /\ target_temp = 0
    /\ current_value = 0
    /\ current_prime = 0
    /\ idx = 0
    /\ written = <<>>
    /\ pass = 0

NextSeg == SegFindStart \/ SegNextLayer \/ SegSplitEnd \/ SegExecute \/ SegWrite

SpecSeg == InitSeg /\ [][NextSeg]_vars

(***************************************************************************)
(* All scripts.                                                            *)
(***************************************************************************)
Init == InitSeg \/ InitBed \/ InitTemp \/ InitCoast \/ InitTower

Next == NextSeg \/ NextBed \/ NextTemp \/ NextCoast \/ NextTower

Spec == Init /\ [][Next]_vars

(***************************************************************************)
(* Reading a layer stream.                                                 *)
(***************************************************************************)
RECURSIVE Flatten(_)
Flatten(stream) ==
    IF stream = <<>> THEN <<>> ELSE Head(stream) \o Flatten(Tail(stream))

RemoveAt(seq, k) == SubSeq(seq, 1, k - 1) \o SubSeq(seq, k + 1, Len(seq))

BedTempLinesOf(lines) == SelectSeq(lines, StartsWithM140S)

NozzleTempLinesOf(lines) == SelectSeq(lines, StartsWithM104S)

\* the layers (1-based) execute visits: all but the reserved last two
Visited(stream) == 1..(Len(stream) - 2)

(***************************************************************************)
(* C3                                                                      *)
(***************************************************************************)
\* first layer (1-based) of the window of num_final_layers = 5
C3Window == (Len(data0) - 6)..(Len(data0) - 2)

C3Case ==
    /\ prog = "BedCool"
    /\ pc = "done"
    /\ options = [num_final_layers |-> 5, reduce_by |-> 1000]
    /\ Len(data0) >= 8
    /\ BedTempLinesOf(Flatten(data0)) = <<BedTempLine(Word("S", 60, 0))>>
    /\ \E i \in 1..(Len(data0) - 7) : BedTempLinesOf(data0[i]) # <<>>

\* layer i is its old self with exactly one bed temperature command added
C3InsertedOnce(i) ==
    \E k \in 1..Len(data[i]) :
        /\ StartsWithM140S(data[i][k])
        /\ RemoveAt(data[i], k) = data0[i]

C3Inserted(i) == BedTempLinesOf(data[i])[1][2]

C3Ramp ==
    /\ \A i \in C3Window : C3InsertedOnce(i)
    /\ \A i \in C3Window :
          i - 1 \in C3Window => C3Inserted(i).n = C3Inserted(i - 1).n - 1
    /\ \A i \in 1..(Len(data0) - 7) : data[i] = data0[i]

\* C3 as stated: with num_final_layers = 5, reduce_by = 1.0 and a single
\* 'M140 S60' before the window, each of the last 5 visited layers gets exactly
\* one bed temperature command, each 1 below the one before, the last one
\* being 56, and the layers before the window are unchanged.
C3_EndsAt56 ==
    C3Case => C3Ramp /\ C3Inserted(Len(data0) - 2) = Word("S", 56, 0)

\* C3 (amended): the same, the last inserted command being 'M140 S55'.
C3_EndsAt55 ==
    C3Case => C3Ramp /\ C3Inserted(Len(data0) - 2) = Word("S", 55, 0)

C3_Witness == C3Case /\ C3InsertedOnce(Len(data0) - 2)

(***************************************************************************)
(* C4                                                                      *)
(***************************************************************************)
\* the layer (1-based) of data0 holding the line 'M104 S210'
C4TargetLayer ==
    CHOOSE i \in 1..Len(data0) :
        \E k \in 1..Len(data0[i]) : data0[i][k] = NozzleTempLine(Word("S", 210, 0))

C4Case ==
    /\ prog = "TempRamp"
    /\ pc = "done"
    /\ options.increase_by = 1000
    /\ NozzleTempLinesOf(Flatten(data0)) =
          <<NozzleTempLine(Word("S", 190, 0)), NozzleTempLine(Word("S", 210, 0))>>
    /\ C4TargetLayer + 19 \in Visited(data0)

\* the nozzle temperatures of the output, in order
C4Emitted == [k \in DOMAIN NozzleTempLinesOf(Flatten(data)) |->
                 ParseFloat(NozzleTempLinesOf(Flatten(data))[k][2])]

\* the temperature in effect at the end of layer i (0: none yet)
C4EndTemp(i) ==
    LET ts == NozzleTempLinesOf(Flatten(SubSeq(data, 1, i)))
    IN  IF ts = <<>> THEN 0 ELSE ParseFloat(ts[Len(ts)][2])

\* the line 'M104 S210' is not the last line of its layer
C4TargetFollowed ==
    data0[C4TargetLayer][Len(data0[C4TargetLayer])] # NozzleTempLine(Word("S", 210, 0))

C4Monotonic ==
    \A k \in DOMAIN C4Emitted : k > 1 => C4Emitted[k - 1] <= C4Emitted[k]

\* the first layer of the output holding 'M104 S210'
C4First210 ==
    CHOOSE i \in 1..Len(data) :
        /\ \E k \in 1..Len(data[i]) : data[i][k] = NozzleTempLine(Word("S", 210, 0))
        /\ \A j \in 1..(i - 1) : \A k \in 1..Len(data[j]) :
              data[j][k] # NozzleTempLine(Word("S", 210, 0))

\* the number of layers up to layer i that execute changed
C4ChangedUpTo(i) == Cardinality({j \in 1..i : data[j] # data0[j]})

C5Pair(lines, i, j) ==
    /\ i < j
    /\ RetractMatch(lines[j])
    /\ StartsWithG(lines[i])
    /\ TravelMatch(lines[i])
    /\ ~HasSpaceE(lines[i])
    /\ \A k \in (i + 1)..(j - 1) : ~StartsWithG(lines[k])

C5Retracts(lines) ==
    {j \in 1..Len(lines) : \E i \in 1..Len(lines) : C5Pair(lines, i, j)}

\* every such pair of layer l of the input is one combined line of the
\* output, standing where the travel move stood, the retract line being gone
C5Merged(l) ==
    LET lines == data0[l]
        gone  == C5Retracts(lines)
    IN  /\ Len(data[l]) = Len(lines) - Cardinality(gone)
        /\ \A i, j \in 1..Len(lines) :
              C5Pair(lines, i, j) =>
                 data[l][i - Cardinality({r \in gone : r < i})]
                    = CombinedMove(lines[i], lines[j])

\* C5: when execute has ended, every retract move that was preceded (with
\* only lines not starting with 'G' in between) by a plain travel move
\* without extrusion has been merged into that travel line as
\* 'G1 F<feed> <travel operands> E<amount>', and the retract line is removed.
C5_EveryPairMerged ==
    (prog = "CoastRetract" /\ pc \in {"done", "raised"}) =>
        \A l \in 1..Len(data0) : C5Merged(l)

\* the same for the calls of execute that return
C5_EveryPairMergedOnReturn ==
    (prog = "CoastRetract" /\ pc = "done") =>
        \A l \in 1..Len(data0) : C5Merged(l)

(***************************************************************************)
(* C6                                                                      *)
(***************************************************************************)
\* the combined move of a travel move and a retract move
C6IsCombined(line) ==
    Len(line) >= 4 /\ line[1] = Cmd("G", 1) /\ line[2].c = "F" /\ line[Len(line)].c = "E"

\* C6: execute applied to the list a first execute returned changes no layer
\* of it (and does not raise), in either dialect.
C6_Idempotent ==
    (prog = "CoastRetract" /\ (pass = 2 \/ (pass = 1 /\ pc # "done"))) =>
        data = data0 /\ pc # "raised"

C6_Witness ==
    /\ prog = "CoastRetract"
    /\ pass = 2
    /\ pc = "done"
    /\ \E k \in 1..Len(data0[1]) :
          C6IsCombined(data0[1][k]) /\ data0[1][k][Len(data0[1][k])].n < 0

(***************************************************************************)
(* C1                                                                      *)
(***************************************************************************)
\* one start marker, the layer markers after it, one end marker after them
C1WellFormed ==
    /\ Cardinality(Occurrences(file, StartMarker)) = 1
    /\ Cardinality(Occurrences(file, EndMarker)) = 1
    /\ \A s \in Occurrences(file, StartMarker) :
          /\ \A l \in Occurrences(file, LayerMarker) : s < l
          /\ \A e \in Occurrences(file, EndMarker) :
                /\ s < e
                /\ \A l \in Occurrences(file, LayerMarker) : l < e

C1Segmented == pc = "call_execute" /\ C1WellFormed

\* C1: for a well-formed text the layers the segmenter produced, joined in
\* order, are the text itself, its last character included.
C1_RoundTrip == C1Segmented => Concat(data) = file

\* what the segmenter produces: the text without its last character
C1_AllButLastCharacter ==
    pc = "call_execute" => Concat(data) = Slice(file, 0, -1)

(***************************************************************************)
(* C2                                                                      *)
(***************************************************************************)
C2MarkerMissing ==
    /\ pc \in {"find_start", "find_layers", "call_execute", "write", "written"}
    /\ \/ Occurrences(file, StartMarker) = {}
       \/ Occurrences(file, EndMarker) = {}

\* C2: a text without start marker or without end marker is never handed to
\* execute and nothing is written back.
C2_AbortsWithoutMarkers == C2MarkerMissing => pc \notin {"write", "written"}

(***************************************************************************)
(* C7                                                                      *)
(***************************************************************************)
C7Case ==
    /\ prog = "TestingTower"
    /\ pc = "done"
    /\ options.command = "speed"
    /\ start_layer <= Len(data0) - 3

\* the layers (0-based) that get a new value, and which step each one is
C7Steps == {i \in start_layer..(Len(data0) - 3) : Qualifying(i)}

C7Step(i) == (i - start_layer) \div options.change_value_every

\* each qualifying layer holds a setter right after its first line, after the
\* baseline-remember command in the layer at start_layer and only there;
\* the third-from-last layer holds the baseline-restore command
C7Layout ==
    /\ \A i \in C7Steps :
          /\ Len(data[i + 1]) >= 3
          /\ IF i = start_layer
             THEN data[i + 1][2] = SpeedRemember
                  /\ SubSeq(data[i + 1][3], 1, 1) = <<Cmd("M", 220)>>
             ELSE SubSeq(data[i + 1][2], 1, 1) = <<Cmd("M", 220)>>
    /\ \A l \in 1..Len(data) :
          l # start_layer + 1 =>
             \A k \in 1..Len(data[l]) : data[l][k] # SpeedRemember
    /\ \E k \in 1..Len(data[Len(data) - 2]) : data[Len(data) - 2][k] = SpeedRestore

\* the number the setter of layer i (0-based) carries
C7Value(i) ==
    IF i = start_layer THEN data[i + 1][3][2] ELSE data[i + 1][2][2]

\* C7 as stated: with command = speed the k-th qualifying layer gets the
\* setter 'M220 S<start_value + k * value_change>' right after its first
\* line, the layer at start_layer gets 'M220 B' before its setter and no
\* other layer does, and the third-from-last layer gets 'M220 R'.
C7_SetterCarriesExactValue ==
    C7Case =>
        /\ C7Layout
        /\ \A i \in C7Steps :
              /\ C7Value(i).c = "S"
              /\ ParseFloat(C7Value(i))
                    = options.start_value + C7Step(i) * options.value_change

\* C7 (amended): the same, the setter carrying round(start_value + k *
\* value_change), the nearest whole number with ties going to the even one.
C7_SetterCarriesRoundedValue ==
    C7Case =>
        /\ C7Layout
        /\ \A i \in C7Steps :
              C7Value(i) = FormatInt("S",
                  options.start_value + C7Step(i) * options.value_change)

C7_Witness ==
    /\ C7Case
    /\ Cardinality(C7Steps) >= 3
    /\ options.start_value = 100000
    /\ options.value_change = 1000
    /\ options.change_value_every = 1

(***************************************************************************)
(* C8                                                                      *)
(***************************************************************************)
C8ZeroStep ==
    \/ prog = "BedCool" /\ pc \in {"execute", "done"} /\ options.reduce_by = 0
    \/ prog = "TempRamp" /\ pc \in {"execute", "done"} /\ options.increase_by = 0

\* C8: with reduce_by = 0 or increase_by = 0 the run ends before execute
\* has processed a layer.
C8_ZeroStepRejected == C8ZeroStep => layer_i = 0 /\ pc # "done"

(***************************************************************************)
(* C9                                                                      *)
(***************************************************************************)
C9InExecute ==
    /\ prog \in {"BedCool", "TempRamp", "CoastRetract", "TestingTower"}
    /\ pc \in {"parse_args", "execute", "loop", "done", "raised"}

\* a layer as the segmenter produces it: ';LAYER_CHANGE\n' and what follows
C9MarkerFirst(lines) == Len(lines) >= 2 /\ lines[1] = LayerChange

C9IsMarker(line) == line = LayerChange

\* the lines of a kind the running script inserts, rewrites or deletes
C9Touched(line) ==
    CASE prog = "BedCool"      -> StartsWithM140S(line)
      [] prog = "TempRamp"     -> StartsWithM104S(line)
      [] prog = "CoastRetract" -> StartsWithG(line)
      [] prog = "TestingTower" -> Len(line) >= 1 /\ line[1].c \in {"M", "G"}

C9Untouched(line) == ~C9Touched(line)

\* the scripts that only insert lines
C9InsertsOnly ==
    \/ prog = "BedCool"
    \/ prog = "TestingTower"
       /\ options.command \notin
             {"retract-speed", "retract-distance", "prime-speed", "extra-prime"}

RECURSIVE C9IsSubsequence(_, _)
C9IsSubsequence(a, b) ==
    IF a = <<>> THEN TRUE
    ELSE IF b = <<>> THEN FALSE
    ELSE IF Head(a) = Head(b) THEN C9IsSubsequence(Tail(a), Tail(b))
    ELSE C9IsSubsequence(a, Tail(b))

\* C9: at every point of execute the list has its layers in their places:
\* as many layers as before, a layer that began with the layer-change marker
\* line still begins with it, every layer holds its marker lines and its
\* other untouched lines as before and in the same order, and a script that
\* only inserts keeps every old line of a layer in order.
C9_LayerBoundaries ==
    C9InExecute =>
        /\ Len(data) = Len(data0)
        /\ \A l \in 1..Len(data0) :
              /\ C9MarkerFirst(data0[l]) => C9MarkerFirst(data[l])
              /\ SelectSeq(data[l], C9IsMarker) = SelectSeq(data0[l], C9IsMarker)
              /\ SelectSeq(data[l], C9Untouched) = SelectSeq(data0[l], C9Untouched)
              /\ C9InsertsOnly => C9IsSubsequence(data0[l], data[l])

C9_Witness ==
    /\ prog = "TempRamp"
    /\ pc = "done"
    /\ \E l \in 1..Len(data0) :
          /\ C9MarkerFirst(data0[l])
          /\ Len(data0[l]) = 2
          /\ Len(data[l]) = 3

(***************************************************************************)
(* C10                                                                     *)
(***************************************************************************)
C10NotStatus(line) == ~(Len(line) >= 1 /\ line[1] = Cmd("M", 117))

\* the E word of a rewritten move 'G1 F<feed> E<amount>'
C10Amount(line) == line[3]

C10IsRewritten(line) ==
    Len(line) = 3 /\ line[1] = Cmd("G", 1) /\ line[2].c = "F" /\ line[3].c = "E"
        /\ line[3].d = 3

\* ins: lines of the input, outs: the lines written for them, last: the
\* amount written into the most recent rewritten retract (<<>>: none yet)
RECURSIVE C10NetZero(_, _, _)
C10NetZero(ins, outs, last) ==
    IF ins = <<>> THEN TRUE
    ELSE IF RetractMatch(Head(ins))
    THEN /\ C10IsRewritten(Head(outs))
         /\ C10NetZero(Tail(ins), Tail(outs), <<C10Amount(Head(outs))>>)
    ELSE IF PrimeMatch(Head(ins))
    THEN /\ IF last = <<>>
            THEN Head(outs) = Head(ins)
            ELSE /\ C10IsRewritten(Head(outs))
                 /\ ParseFloat(C10Amount(Head(outs))) = 0 - ParseFloat(last[1])
         /\ C10NetZero(Tail(ins), Tail(outs), last)
    ELSE C10NetZero(Tail(ins), Tail(outs), last)

\* the layers execute rewrites: from start_layer up to the reserved last two
C10Rewritten(stream) ==
    Flatten(SubSeq(stream, start_layer + 1, Len(stream) - 2))

C10Case ==
    /\ prog = "TestingTower"
    /\ pc = "done"
    /\ options.command = "retract-distance"

\* C10: with command = retract-distance, in the layers execute rewrites,
\* every prime move after a rewritten retract move carries the exact
\* negation of the amount written into the most recent rewritten retract,
\* and a prime move before any rewritten retract is unchanged.
C10_PrimeNegatesRetract ==
    C10Case =>
        C10NetZero(C10Rewritten(data0),
                   SelectSeq(C10Rewritten(data), C10NotStatus), <<>>)

\* the same for the runs in which current_value never is -1
C10_PrimeNegatesRetractUnlessMinusOne ==
    (C10Case /\ \A k \in 0..Len(data0) :
                    options.start_value + k * options.value_change # NoPrime) =>
        C10NetZero(C10Rewritten(data0),
                   SelectSeq(C10Rewritten(data), C10NotStatus), <<>>)

(***************************************************************************)
(* C11                                                                     *)
(***************************************************************************)
\* the commands that insert a setter line
C11Setters ==
    Commands \ {"retract-speed", "retract-distance", "prime-speed", "extra-prime"}

C11Case ==
    /\ prog = "TestingTower"
    /\ pc = "done"
    /\ options.command \in C11Setters
    /\ start_layer <= Len(data0) - 3

\* the setter line of the qualifying layer i (0-based) of the output
C11Setter(i) ==
    IF options.command = "speed" /\ i = start_layer
    THEN data[i + 1][3] ELSE data[i + 1][2]

\* current_value while layer i (0-based) was rewritten
C11ValueAt(i) == options.start_value + C7Step(i) * options.value_change

\* the setter of layer i is the one no other setter command writes
C11Distinct(i, others) ==
    \A c2 \in others \ {options.command} :
        C11Setter(i) # SetterGcode(c2, C11ValueAt(i))

\* C11: the setter line written into a qualifying layer is the one of the
\* selected command: 'M140 S..' for bed-temp, 'M104 S..' for nozzle-temp,
\* and a line no other setter command writes for the same value.
C11_SetterOfSelectedCommand ==
    C11Case =>
        \A i \in C7Steps :
            /\ options.command = "bed-temp" => StartsWithM140S(C11Setter(i))
            /\ options.command = "nozzle-temp" => StartsWithM104S(C11Setter(i))
            /\ C11Distinct(i, C11Setters)

\* the same for every command but bed-temp, and bed-temp left out of the
\* commands compared with
C11_SetterOfSelectedCommandButBedTemp ==
    (C11Case /\ options.command # "bed-temp") =>
        \A i \in C7Steps :
            /\ options.command = "nozzle-temp" => StartsWithM104S(C11Setter(i))
            /\ C11Distinct(i, C11Setters \ {"bed-temp"})

(***************************************************************************)
(* C12                                                                     *)
(***************************************************************************)
\* line j of lines is a retract move the guard leaves alone: the nearest
\* line before it that starts with 'G' carries an extrusion or is no travel
\* move, or there is none
C12Guarded(lines, j) ==
    /\ RetractMatch(lines[j])
    /\ \A i \in 1..Len(lines) : ~C5Pair(lines, i, j)

\* line k of lines is the travel move or the retract move of a merged pair
C12InPair(lines, k) ==
    \E i, j \in 1..Len(lines) : C5Pair(lines, i, j) /\ k \in {i, j}

\* every line of layer l of the input outside the merged pairs stands
\* unchanged in the output, moved up by the retract lines removed before it
C12Kept(l) ==
    LET lines == data0[l]
        gone  == C5Retracts(lines)
    IN  /\ Len(data[l]) = Len(lines) - Cardinality(gone)
        /\ \A k \in 1..Len(lines) :
              ~C12InPair(lines, k) =>
                 data[l][k - Cardinality({r \in gone : r < k})] = lines[k]

\* a plain travel move stands further back than the move that stops the scan
C12TravelFurtherBack(lines, j) ==
    \E i, g \in 1..Len(lines) :
        /\ i < g
        /\ g < j
        /\ StartsWithG(lines[g])
        /\ HasSpaceE(lines[g])
        /\ \A k \in (g + 1)..(j - 1) : ~StartsWithG(lines[k])
        /\ TravelMatch(lines[i])
        /\ ~HasSpaceE(lines[i])

\* C12: a retract move whose nearest preceding line starting with 'G'
\* carries an extrusion or is no travel move, or that has no such line
\* before it, changes nothing: in a layer execute has gone through, that
\* retract line and every other line outside the merged pairs are as they
\* were, and a layer execute has not gone through (also the one in which
\* it raised) is as it was.
C12_GuardedRetractChangesNothing ==
    (prog = "CoastRetract" /\ pc \in {"execute", "done", "raised"}) =>
        \A l \in 1..Len(data0) :
            (\E j \in 1..Len(data0[l]) : C12Guarded(data0[l], j)) =>
                IF l <= layer_i THEN C12Kept(l) ELSE data[l] = data0[l]

C12_Witness ==
    /\ prog = "CoastRetract"
    /\ pc = "done"
    /\ pass = 1
    /\ \E j \in 1..Len(data0[1]) :
          /\ C12Guarded(data0[1], j)
          /\ C12TravelFurtherBack(data0[1], j)
          /\ data[1] = data0[1]

(***************************************************************************)
(* C13                                                                     *)
(***************************************************************************)
\* execute is about to go through layer layer_i
C13Pending ==
    /\ prog = "TempRamp"
    /\ pc = "execute"
    /\ layer_i < Len(DropLast2(data))

C13Layer == data[layer_i + 1]

\* the lines and temperatures after the first k lines of that layer
C13After(k) ==
    TempRampScan(SubSeq(C13Layer, 1, k), 1, current_temp, target_temp)

\* the lines and temperatures at the end of that layer
C13LayerDone == TempRampLayerEnd(C13After(Len(C13Layer)))

\* line k of the layer is substituted
C13Substituted(k) == C13After(k).lines[k] # C13Layer[k]

\* a line is added at the end of the layer
C13Appended == Len(C13LayerDone.lines) > Len(C13Layer)

C13AppendedTemp == ParseFloat(C13LayerDone.lines[Len(C13Layer)][2])

\* current_temp <= target_temp after every line and at the end of the layer
C13NeverAbove ==
    /\ \A k \in 0..Len(C13Layer) :
          C13After(k).current_temp <= C13After(k).target_temp
    /\ C13LayerDone.current_temp <= C13LayerDone.target_temp

\* a target within one step is taken at once, its line left as it is
C13Snaps ==
    \A k \in 1..Len(C13Layer) :
        (/\ StartsWithM104S(C13Layer[k])
         /\ ParseFloat(C13Layer[k][2])
               <= C13After(k - 1).current_temp + options.increase_by) =>
            /\ C13After(k).current_temp = ParseFloat(C13Layer[k][2])
            /\ C13After(k).target_temp = ParseFloat(C13Layer[k][2])
            /\ ~C13Substituted(k)
            /\ \E m \in 1..Len(C13LayerDone.lines) :
                  C13LayerDone.lines[m] = C13Layer[k]

\* C13 as stated: current_temp never is above target_temp, after a line or
\* at the end of a layer; every temperature execute writes, in a substituted
\* line or in the line added at the end of a layer, is at most the target
\* requested last; a target at or below current_temp + increase_by becomes
\* current_temp at once and its line is not rewritten.
C13_WritesAtMostTarget ==
    /\ prog = "TempRamp" => current_temp <= target_temp
    /\ C13Pending =>
          /\ C13NeverAbove
          /\ C13Snaps
          /\ \A k \in 1..Len(C13Layer) :
                C13Substituted(k) =>
                   ParseFloat(C13After(k).lines[k][2]) <= C13After(k).target_temp
          /\ C13Appended => C13AppendedTemp <= C13LayerDone.target_temp

\* C13 (amended): the same, every temperature execute writes being at most
\* the target requested last rounded to the nearest whole number.
C13_WritesAtMostRoundedTarget ==
    /\ prog = "TempRamp" => current_temp <= target_temp
    /\ C13Pending =>
          /\ C13NeverAbove
          /\ C13Snaps
          /\ \A k \in 1..Len(C13Layer) :
                C13Substituted(k) =>
                   ParseFloat(C13After(k).lines[k][2])
                      <= Whole(Round(C13After(k).target_temp))
          /\ C13Appended =>
                C13AppendedTemp <= Whole(Round(C13LayerDone.target_temp))

\* a layer in which a far target is substituted and a step is added
C13_Witness ==
    /\ C13Pending
    /\ C13Appended
    /\ \E k \in 1..Len(C13Layer) : C13Substituted(k)
    /\ C13LayerDone.current_temp < C13LayerDone.target_temp

(***************************************************************************)
(* C14                                                                     *)
(***************************************************************************)
\* in lines, the retract move j is merged and a second retract move follows
\* it with only lines not starting with 'G' in between
C14SecondRetract(lines) ==
    \E i, j, k \in 1..Len(lines) :
        /\ C5Pair(lines, i, j)
        /\ j < k
        /\ RetractMatch(lines[k])
        /\ \A m \in (j + 1)..(k - 1) : ~StartsWithG(lines[m])

\* C14: execute goes through every layer without raising, also through a
\* layer in which a merged retract move is followed, with only lines not
\* starting with 'G' in between, by a second retract move.
C14_CompletesNormally == prog = "CoastRetract" => pc # "raised"

\* execute raises in the layers of that kind and in no other
C14_RaisesOnSecondRetract ==
    prog = "CoastRetract" =>
        /\ pc = "raised" => C14SecondRetract(data[layer_i + 1])
        /\ \A l \in 1..Len(data) :
              (l <= layer_i /\ l <= Len(data0)) => ~C14SecondRetract(data0[l])

====
